---- MODULE Spec2Model ----
(***************************************************************************)
(* Model of the story generators of simple-story-writer:                   *)
(*   gemini_debate_story_generator.py   (StoryDebateGenerator, "debate")   *)
(*   gemini_outlined_story_generator.py (single writer,        "outlined") *)
(*                                                                         *)
(* The remote model service is the environment: every call draws its       *)
(* response from a small set of response objects.  Texts are sequences of  *)
(* tokens; Python values are tagged records so that None, "", {} and [] stay  *)
(* distinct and truthiness is computed as Python computes it.              *)
(***************************************************************************)
EXTENDS Integers, Sequences, FiniteSets, TLC

\* Largest number of entries in an outline returned by the service.
MaxSections == 2

\* Number of sections the outline prompt asks for ("6-point outline").
SectionCount == 6

(***************************************************************************)
(* Python values                                                           *)
(***************************************************************************)
PyNone == [t |-> "none"]
Str(s) == [t |-> "str", s |-> s]
PyInt(n) == [t |-> "int", n |-> n]
Dict(d) == [t |-> "dict", d |-> d]
List(items) == [t |-> "list", items |-> items]

\* bool(v): the test behind every "if not x" of the source.
Truthy(v) ==
    CASE v.t = "none" -> FALSE
      [] v.t = "str"  -> v.s # <<>>
      [] v.t = "int"  -> v.n # 0
      [] v.t = "dict" -> DOMAIN v.d # {}
      [] v.t = "list" -> v.items # <<>>

\* d[key] on a parsed JSON value raises unless d is a dict holding the key.
HasKey(v, key) == v.t = "dict" /\ key \in DOMAIN v.d

(***************************************************************************)
(* Text tokens.  FENCE is the three backticks, JSONWORD the letters json   *)
(* directly after them, WS a run of whitespace, Doc(v) the text of one     *)
(* JSON document that decodes to v.                                        *)
(***************************************************************************)
WS == [k |-> "ws"]
FENCE == [k |-> "fence"]
JSONWORD == [k |-> "json"]
H1 == [k |-> "# "]
H2 == [k |-> "## "]
BLANK == [k |-> "\n\n"]
Word(w) == [k |-> "word", w |-> w]
Draft(who, n) == [k |-> "draft", who |-> who, n |-> n]
Doc(v) == [k |-> "doc", v |-> v]

RECURSIVE LStrip(_)
LStrip(s) == IF s # <<>> /\ Head(s) = WS THEN LStrip(Tail(s)) ELSE s

RECURSIVE RStrip(_)
RStrip(s) ==
    IF s # <<>> /\ s[Len(s)] = WS THEN RStrip(SubSeq(s, 1, Len(s) - 1)) ELSE s

\* str.strip()
Strip(s) == RStrip(LStrip(s))

StartsWith(s, p) == Len(s) >= Len(p) /\ SubSeq(s, 1, Len(p)) = p
EndsWith(s, p) == Len(s) >= Len(p) /\ SubSeq(s, Len(s) - Len(p) + 1, Len(s)) = p

\* Variant of CleanJsonResponse that leaves a trailing fence in place.
CleanJsonResponse_KeepsTrailingFence(response_text) ==
    LET a == IF StartsWith(response_text, <<FENCE, JSONWORD>>)
                THEN SubSeq(response_text, 3, Len(response_text))
             ELSE IF StartsWith(response_text, <<FENCE>>)
                THEN SubSeq(response_text, 2, Len(response_text))
             ELSE response_text
    IN  Strip(a)

\* StoryDebateGenerator._clean_json_response
CleanJsonResponse(response_text) ==
    LET a == IF StartsWith(response_text, <<FENCE, JSONWORD>>)
                THEN SubSeq(response_text, 3, Len(response_text))
             ELSE IF StartsWith(response_text, <<FENCE>>)
                THEN SubSeq(response_text, 2, Len(response_text))
             ELSE response_text
        b == IF EndsWith(a, <<FENCE>>) THEN SubSeq(a, 1, Len(a) - 1) ELSE a
    IN  Strip(b)

\* json.loads: succeeds exactly on the text of one JSON document.
JsonLoads(text) ==
    IF Len(text) = 1 /\ text[1].k = "doc"
        THEN [ok |-> TRUE, v |-> text[1].v]
        ELSE [ok |-> FALSE, v |-> PyNone]

(***************************************************************************)
(* The model service.  A response object either never arrives (the client  *)
(* raises), has no choices, has a first choice without a message, or       *)
(* carries a message whose content is None or a text, with or without      *)
(* usage metadata.                                                         *)
(***************************************************************************)
NoUsage == [t |-> "none"]
Usage(p, c, tot) ==
    [t |-> "usage", prompt_tokens |-> p, completion_tokens |-> c,
     total_tokens |-> tot]

\* Usage reports of the service.  prompt_tokens, completion_tokens and
\* total_tokens are three independent fields of the report: in one report
\* the total is prompt + completion, in the other it also counts tokens that
\* are neither.
UsageReports == {Usage(1, 2, 3), Usage(1, 2, 5)}

Raised == [kind |-> "raise"]
NoChoices == [kind |-> "nochoices"]
NoMessage == [kind |-> "nomessage"]
Message(content, usage) ==
    [kind |-> "message", content |-> content, usage |-> usage]

Agents == {"outline_generator", "affirmative_writer", "negative_critic",
           "judge_editor"}

\* StoryDebateGenerator.__init__: self.token_usage
InitTokenUsage ==
    [total_prompt_tokens |-> 0, total_completion_tokens |-> 0,
     total_tokens |-> 0, api_calls |-> 0,
     by_agent |-> [a \in Agents |->
                     [prompt_tokens |-> 0, completion_tokens |-> 0,
                      calls |-> 0]]]

\* _call_model, "Update totals"
UpdateTotals(tu, u) ==
    [tu EXCEPT !.total_prompt_tokens = @ + u.prompt_tokens,
               !.total_completion_tokens = @ + u.completion_tokens,
               !.total_tokens = @ + u.total_tokens,
               !.api_calls = @ + 1]

\* Variant of UpdateByAgent that leaves the role's call count alone.
UpdateByAgent_NoCallCount(tu, agent_type, u) ==
    IF agent_type \in DOMAIN tu.by_agent
        THEN [tu EXCEPT !.by_agent[agent_type] =
                 [prompt_tokens |-> @.prompt_tokens + u.prompt_tokens,
                  completion_tokens |-> @.completion_tokens + u.completion_tokens,
                  calls |-> @.calls]]
        ELSE tu

\* _call_model, "Update by agent"
UpdateByAgent(tu, agent_type, u) ==
    IF agent_type \in DOMAIN tu.by_agent
        THEN [tu EXCEPT !.by_agent[agent_type] =
                 [prompt_tokens |-> @.prompt_tokens + u.prompt_tokens,
                  completion_tokens |-> @.completion_tokens + u.completion_tokens,
                  calls |-> @.calls + 1]]
        ELSE tu

\* Variant of TrackUsage that counts only a response with a text.
TrackUsage_TextOnly(tu, agent_type, response) ==
    IF response.usage # NoUsage /\ Truthy(response.content)
        THEN UpdateByAgent(UpdateTotals(tu, response.usage), agent_type,
                           response.usage)
        ELSE tu

\* Variant of TrackUsage that counts a call even without usage metadata.
TrackUsage_CountsEveryCall(tu, agent_type, response) ==
    IF response.usage # NoUsage
        THEN UpdateByAgent(UpdateTotals(tu, response.usage), agent_type,
                           response.usage)
        ELSE [tu EXCEPT !.api_calls = @ + 1]

\* _call_model, "Track token usage"
TrackUsage(tu, agent_type, response) ==
    IF response.usage # NoUsage
        THEN UpdateByAgent(UpdateTotals(tu, response.usage), agent_type,
                           response.usage)
        ELSE tu

\* _call_model: "content.strip() if content else None"
ContentOf(content) ==
    IF Truthy(content) THEN Str(Strip(content.s)) ELSE PyNone

\* Variant of CallModel that counts a call that failed.
CallModel_CountsFailures(response, agent_type, tu) ==
    IF response.kind # "message"
        THEN [ret |-> PyNone, tu |-> [tu EXCEPT !.api_calls = @ + 1]]
        ELSE [ret |-> ContentOf(response.content),
              tu |-> TrackUsage(tu, agent_type, response)]

\* StoryDebateGenerator._call_model: the returned text and the usage totals
\* after the call.
CallModel(response, agent_type, tu) ==
    IF response.kind # "message"
        THEN [ret |-> PyNone, tu |-> tu]
        ELSE [ret |-> ContentOf(response.content),
              tu |-> TrackUsage(tu, agent_type, response)]

(***************************************************************************)
(* Responses the service can give to each kind of call                     *)
(***************************************************************************)
FailedResponses == {Raised, NoChoices, NoMessage}
Responses(contents, usages) ==
    FailedResponses \cup {Message(c, u) : c \in contents, u \in usages}

Title(pos) == [k |-> "title", n |-> pos]
Summary(pos) == [k |-> "summary", n |-> pos]
OutlineEntry(n, pos) ==
    Dict([section |-> PyInt(n), title |-> Str(<<Title(pos)>>),
          summary |-> Str(<<Summary(pos)>>)])
StoryTitle == Str(<<Word("story")>>)

\* The outline the prompt asks for, with n entries numbered by position.
ProperOutline(n) ==
    Dict([title |-> StoryTitle,
          outline |-> List([p \in 1..n |-> OutlineEntry(p, p)])])

\* JSON documents the outline call can return: the requested shape with
\* 0..MaxSections entries, an outline without a title, one whose section
\* number is not its position, and documents of other shapes.
OutlineDocs ==
    {ProperOutline(n) : n \in 0..MaxSections}
    \cup {Dict([outline |-> List(<<OutlineEntry(1, 1)>>)]),
          Dict([title |-> StoryTitle,
                outline |-> List(<<OutlineEntry(2, 1)>>)]),
          Dict([title |-> StoryTitle]),
          Dict([title |-> StoryTitle,
                outline |-> List(<<Dict([section |-> PyInt(1)])>>)]),
          Dict(<<>>),
          List(<<PyInt(1)>>)}

\* Each call has a basic set of contents (none, or the text that was asked
\* for) and a wide set that adds blank, unparsable and oddly shaped ones.
OutlineBasic ==
    {PyNone,
     Str(<<FENCE, JSONWORD, WS, Doc(ProperOutline(MaxSections)), WS, FENCE>>)}
OutlineContents ==
    OutlineBasic \cup {Str(<<WS>>), Str(<<Word("sorry")>>)}
    \cup {Str(<<Doc(d)>>) : d \in OutlineDocs}

AffirmativeBasic(pos) == {PyNone, Str(<<WS, Draft("aff", pos)>>)}
AffirmativeContents(pos) == AffirmativeBasic(pos) \cup {Str(<<WS>>)}
NegativeBasic(pos) == {PyNone, Str(<<Draft("neg", pos), WS>>)}
NegativeContents(pos) == NegativeBasic(pos) \cup {Str(<<WS>>)}

Decision(preferred, final) ==
    Dict([preferred_version |-> Str(<<Word(preferred)>>),
          reasoning |-> Str(<<Word("because")>>),
          final_section |-> final])

\* JSON documents the judge call can return for the section at pos.
JudgeDocs(pos) ==
    {Decision("refined", Str(<<Draft("judge", pos)>>)),
     Decision("negative", Str(<<>>)),
     Decision("affirmative", PyNone),
     Dict([final_section |-> Str(<<Draft("judge", pos)>>)]),
     Dict(<<>>),
     List(<<PyInt(1)>>)}

JudgeBasic(pos) ==
    {PyNone,
     Str(<<FENCE, WS, Doc(Decision("affirmative", Str(<<Draft("judge", pos)>>))),
           WS, FENCE>>)}
JudgeContents(pos) ==
    JudgeBasic(pos) \cup {Str(<<Word("sorry")>>)}
    \cup {Str(<<Doc(d)>>) : d \in JudgeDocs(pos)}

(***************************************************************************)
(* State                                                                   *)
(***************************************************************************)
VARIABLES
    service,              \* how the model service behaves during this run
    pipeline,             \* "debate" or "outlined": which generator runs
    pc,                   \* position of the driver
    story_prompt_content, \* text read from story_prompt.txt
    outline_data,         \* parsed outline, PyNone before / on failure
    idx,                  \* 1-based position of section_info in the outline
    affirmative_draft,    \* locals of generate_section_with_debate
    negative_draft,
    final_section,        \* value the section generator returned
    previous_sections,    \* context list of the driver
    complete_story,       \* rendered sections of the driver
    debate_log,           \* self.debate_log
    token_usage,          \* self.token_usage
    calls,                \* history: every model call, in order
    metered_calls,        \* history: per agent, the calls with usage metadata
    files,                \* history: every file written, in order
    report,               \* section numbers printed as failed
    returned              \* return value of the run, PyNone until it returns

vars ==
    <<service, pipeline, pc, story_prompt_content,
      outline_data, idx, affirmative_draft, negative_draft,
      final_section, previous_sections, complete_story, debate_log,
      token_usage, metered_calls, calls, files,
      report, returned>>

\* Behaviours of the service over one run: every message carries usage
\* metadata, none does, or each message may or may not.  Under the first two
\* the contents range over the wide sets, under the last over the basic ones.
Services == {"usage_always", "usage_never", "usage_sometimes"}

UsageOffered ==
    CASE service = "usage_always" -> UsageReports
      [] service = "usage_never" -> {NoUsage}
      [] service = "usage_sometimes" -> UsageReports \cup {NoUsage}

Offered(wide, basic) == IF service = "usage_sometimes" THEN basic ELSE wide

\* affirmative_writer / negative_critic / generate_story_section:
\* "Build context from previous sections" (enumerate(previous_sections, 1))
BuildContext(prev) == [j \in 1..Len(prev) |-> [n |-> j, text |-> prev[j]]]

\* The response carries a message and usage metadata.
Metered(response) == response.kind = "message" /\ response.usage # NoUsage

Call(agent, pos, context, ret) ==
    [agent |-> agent, pos |-> pos, context |-> context, ret |-> ret]

\* One more call of the agent through _call_model, counted when its response
\* carried a message and usage metadata.
CountMetered(counts, agent_type, response) ==
    [counts EXCEPT ![agent_type] = @ + (IF Metered(response) THEN 1 ELSE 0)]

File(name, content) == [name |-> name, content |-> content]

\* f"{value}"
Format(v) == IF v.t = "str" THEN v.s ELSE <<[k |-> "repr", v |-> v]>>

\* dict.get(key, default)
Get(v, key, default) == IF key \in DOMAIN v.d THEN v.d[key] ELSE default

\* Lines 380-383 of both drivers read outline_data.get, outline_data['outline']
\* and each entry's section, title and summary; anything else raises.
OutlineReadable(v) ==
    /\ v.t = "dict"
    /\ "outline" \in DOMAIN v.d
    /\ v.d.outline.t = "list"
    /\ \A j \in 1..Len(v.d.outline.items) :
          /\ HasKey(v.d.outline.items[j], "section")
          /\ HasKey(v.d.outline.items[j], "title")
          /\ HasKey(v.d.outline.items[j], "summary")

Entries == outline_data.d.outline.items
SectionInfo == Entries[idx]

\* Variant of ParseJson that takes every text for parsed.
ParseJson_NeverFails(ret) ==
    [ok |-> TRUE, v |-> JsonLoads(CleanJsonResponse(ret.s)).v]

\* generate_story_outline / judge_editor: clean, json.loads, and the
\* JSONDecodeError handler.
ParseJson(ret) == JsonLoads(CleanJsonResponse(ret.s))

\* judge_editor: "Log the debate for this section"
DebateRecord(section_info, aff, neg, decision) ==
    [section |-> section_info.d.section, title |-> section_info.d.title,
     affirmative_draft |-> aff, negative_draft |-> neg,
     judge_decision |-> decision]

\* Variant of LogDebate that keeps only the newest record.
LogDebate_KeepsLast(log, record) == <<record>>

\* judge_editor: self.debate_log.append(debate_record)
LogDebate(log, record) == Append(log, record)

\* Variant of AffirmativeFailed that tests for None only.
AffirmativeFailed_NoneOnly(draft) == draft.t = "none"

\* generate_section_with_debate: "if not affirmative_draft: return None"
AffirmativeFailed(draft) == ~Truthy(draft)

\* Variant of NegativeFailed that never holds.
NegativeFailed_Never(draft) == FALSE

\* Variant of NegativeFailed that tests for None only.
NegativeFailed_NoneOnly(draft) == draft.t = "none"

\* generate_section_with_debate: "if not negative_draft: return affirmative_draft"
NegativeFailed(draft) == ~Truthy(draft)

\* generate_section_with_debate: "if not judge_decision: return affirmative_draft"
JudgeFailed(decision) == ~Truthy(decision)

\* generate_section_with_debate, after a truthy decision: the prints read
\* preferred_version and reasoning, the return reads final_section.
DecisionReadable(decision) ==
    /\ HasKey(decision, "preferred_version")
    /\ HasKey(decision, "reasoning")
    /\ HasKey(decision, "final_section")

\* Variant of ChosenText that follows preferred_version.
ChosenText_ByPreference(decision, aff, neg) ==
    IF decision.d.preferred_version = Str(<<Word("affirmative")>>) THEN aff
    ELSE IF decision.d.preferred_version = Str(<<Word("negative")>>) THEN neg
    ELSE decision.d.final_section

\* generate_section_with_debate: return judge_decision['final_section']
ChosenText(decision, aff, neg) == decision.d.final_section

\* driver loop: "if final_section:"
SectionSucceeded(section) == Truthy(section)

\* driver loop: complete_story.append(f"## {title}\n\n{final_section}")
RenderSection(section_info, section) ==
    <<H2>> \o Format(section_info.d.title) \o <<BLANK>> \o Format(section)

\* Variant of NextContext that starts the list over.
NextContext_Restarts(prev, section) == <<section>>

\* Variant of NextContext that does not append.
NextContext_Dropped(prev, section) == prev

\* driver loop: previous_sections.append(final_section)
NextContext(prev, section) == Append(prev, section)

\* Variant of NextIndex that stays on the same outline entry.
NextIndex_Stays(i) == i

\* driver loop: "for section_info in outline_data['outline']" advancing
NextIndex(i) == i + 1

\* Variant of HasSections that never holds.
HasSections_Never(story) == FALSE

\* Variant of HasSections that holds of the empty story too.
HasSections_Always(story) == TRUE

\* "if complete_story:"
HasSections(story) == story # <<>>

RECURSIVE Join(_, _)
\* sep.join(parts)
Join(parts, sep) ==
    IF parts = <<>> THEN <<>>
    ELSE IF Len(parts) = 1 THEN parts[1]
    ELSE parts[1] \o sep \o Join(Tail(parts), sep)

\* Variant of FullStory without the blank line after the heading.
FullStory_NoBlankAfterTitle(title, story) ==
    <<H1>> \o Format(title) \o Join(story, <<BLANK>>)

\* f"# {story_title}\n\n" + "\n\n".join(complete_story)
FullStory(title, story) == <<H1>> \o Format(title) \o <<BLANK>> \o Join(story, <<BLANK>>)

(***************************************************************************)
(* The debate pipeline: StoryDebateGenerator.generate_complete_debate_story *)
(***************************************************************************)
Prompts == {Str(<<>>), Str(<<Word("prompt")>>)}

Init ==
    /\ service \in Services
    /\ pipeline \in {"debate", "outlined"}
    /\ pc = "start"
    /\ story_prompt_content \in Prompts
    /\ outline_data = PyNone
    /\ idx = 0
    /\ affirmative_draft = PyNone
    /\ negative_draft = PyNone
    /\ final_section = PyNone
    /\ previous_sections = <<>>
    /\ complete_story = <<>>
    /\ debate_log = <<>>
    /\ token_usage = InitTokenUsage
    /\ metered_calls = [a \in Agents |-> 0]
    /\ calls = <<>>
    /\ files = <<>>
    /\ report = <<>>
    /\ returned = PyNone

NotParsed == [ok |-> FALSE, v |-> PyNone]

\* "Read the story prompt": an empty prompt ends the run.
ReadPrompt ==
    /\ pipeline = "debate"
    /\ pc = "start"
    /\ pc' = IF Truthy(story_prompt_content) THEN "outline" ELSE "done"
    /\ UNCHANGED <<service, pipeline, story_prompt_content, outline_data,
                   idx, affirmative_draft, negative_draft, final_section,
                   previous_sections, complete_story, debate_log,
                   token_usage, metered_calls, calls, files, report,
                   returned>>

\* Where the driver goes once it holds the outline (lines 376-393).
AfterOutline(data) ==
    IF ~Truthy(data) THEN "done"
    ELSE IF ~OutlineReadable(data) THEN "crashed"
    ELSE IF data.d.outline.items = <<>> THEN "assemble"
    ELSE "section"

\* "Step 1: Generate outline": generate_story_outline and the driver's
\* reading of the outline.
GenerateOutline ==
    /\ pipeline = "debate"
    /\ pc = "outline"
    /\ \E response \in Responses(Offered(OutlineContents, OutlineBasic),
                                 UsageOffered) :
          LET r == CallModel(response, "outline_generator", token_usage)
              parsed == IF Truthy(r.ret) THEN ParseJson(r.ret) ELSE NotParsed
              next == AfterOutline(parsed.v)
          IN  /\ token_usage' = r.tu
              /\ metered_calls' =
                    CountMetered(metered_calls, "outline_generator", response)
              /\ calls' = Append(calls, Call("outline_generator", 0, <<>>, r.ret))
              /\ outline_data' = parsed.v
              /\ files' = IF parsed.ok
                             THEN Append(files, File("story_outline.json", parsed.v))
                             ELSE files
              /\ pc' = IF next = "section" THEN "affirmative" ELSE next
              /\ idx' = IF next = "section" THEN 1 ELSE idx
    /\ UNCHANGED <<service, pipeline, story_prompt_content, affirmative_draft,
                   negative_draft, final_section, previous_sections,
                   complete_story, debate_log, report, returned>>

\* generate_section_with_debate, "Step 1: Affirmative writer creates
\* initial draft"
Affirmative ==
    /\ pc = "affirmative"
    /\ \E response \in Responses(Offered(AffirmativeContents(idx),
                                         AffirmativeBasic(idx)),
                                 UsageOffered) :
          LET r == CallModel(response, "affirmative_writer", token_usage)
          IN  /\ token_usage' = r.tu
              /\ metered_calls' =
                    CountMetered(metered_calls, "affirmative_writer", response)
              /\ calls' = Append(calls, Call("affirmative_writer", idx,
                                             BuildContext(previous_sections), r.ret))
              /\ affirmative_draft' = r.ret
              /\ negative_draft' = PyNone
              /\ final_section' = PyNone
              /\ pc' = IF AffirmativeFailed(r.ret) THEN "loop_body" ELSE "negative"
    /\ UNCHANGED <<service, pipeline, story_prompt_content, outline_data, idx,
                   previous_sections, complete_story, debate_log, files,
                   report, returned>>

\* generate_section_with_debate, "Step 2: Negative critic provides
\* alternative"
Negative ==
    /\ pc = "negative"
    /\ \E response \in Responses(Offered(NegativeContents(idx),
                                         NegativeBasic(idx)),
                                 UsageOffered) :
          LET r == CallModel(response, "negative_critic", token_usage)
          IN  /\ token_usage' = r.tu
              /\ metered_calls' =
                    CountMetered(metered_calls, "negative_critic", response)
              /\ calls' = Append(calls, Call("negative_critic", idx,
                                             BuildContext(previous_sections), r.ret))
              /\ negative_draft' = r.ret
              /\ final_section' = IF NegativeFailed(r.ret)
                                     THEN affirmative_draft ELSE final_section
              /\ pc' = IF NegativeFailed(r.ret) THEN "loop_body" ELSE "judge"
    /\ UNCHANGED <<service, pipeline, story_prompt_content, outline_data, idx,
                   affirmative_draft, previous_sections, complete_story,
                   debate_log, files, report, returned>>

\* generate_section_with_debate, "Step 3: Judge evaluates and selects final
\* version": judge_editor and the use of its decision.
Judge ==
    /\ pc = "judge"
    /\ \E response \in Responses(Offered(JudgeContents(idx), JudgeBasic(idx)),
                                 UsageOffered) :
          LET r == CallModel(response, "judge_editor", token_usage)
              parsed == IF Truthy(r.ret) THEN ParseJson(r.ret) ELSE NotParsed
              decision == parsed.v
          IN  /\ token_usage' = r.tu
              /\ metered_calls' =
                    CountMetered(metered_calls, "judge_editor", response)
              /\ calls' = Append(calls, Call("judge_editor", idx, <<>>, r.ret))
              /\ debate_log' =
                    IF parsed.ok
                       THEN LogDebate(debate_log,
                                      DebateRecord(SectionInfo, affirmative_draft,
                                                   negative_draft, decision))
                       ELSE debate_log
              /\ IF JudgeFailed(decision)
                    THEN /\ final_section' = affirmative_draft
                         /\ pc' = "loop_body"
                    ELSE IF ~DecisionReadable(decision)
                    THEN /\ final_section' = final_section
                         /\ pc' = "crashed"
                    ELSE /\ final_section' = ChosenText(decision, affirmative_draft,
                                                        negative_draft)
                         /\ pc' = "loop_body"
    /\ UNCHANGED <<service, pipeline, story_prompt_content, outline_data, idx,
                   affirmative_draft, negative_draft, previous_sections,
                   complete_story, files, report, returned>>

\* driver loop body after the section generator returned (lines 398-404),
\* and the loop's advance to the next outline entry.
LoopBody ==
    /\ pc = "loop_body"
    /\ IF SectionSucceeded(final_section)
          THEN /\ complete_story' =
                     Append(complete_story, RenderSection(SectionInfo, final_section))
               /\ previous_sections' = NextContext(previous_sections, final_section)
               /\ report' = report
               /\ idx' = IF idx < Len(Entries) THEN NextIndex(idx) ELSE idx
               /\ pc' = IF idx < Len(Entries) THEN "affirmative" ELSE "assemble"
          ELSE /\ report' = Append(report, SectionInfo.d.section)
               /\ pc' = "assemble"
               /\ UNCHANGED <<complete_story, previous_sections, idx>>
    /\ UNCHANGED <<service, pipeline, story_prompt_content, outline_data,
                   affirmative_draft, negative_draft, final_section,
                   debate_log, token_usage, metered_calls, calls, files,
                   returned>>

\* "Step 3: Save the complete story and debate log"
Assemble ==
    /\ pipeline = "debate"
    /\ pc = "assemble"
    /\ IF HasSections(complete_story)
          THEN LET full_story ==
                       FullStory(Get(outline_data, "title",
                                     Str(<<Word("Generated Debate Story")>>)),
                                 complete_story)
               IN  /\ files' = files \o
                          <<File("generated_debate_story.txt", full_story),
                            File("debate_log.json", debate_log),
                            File("token_usage_log.json", token_usage)>>
                   /\ returned' = Str(full_story)
          ELSE /\ files' = files
               /\ returned' = PyNone
    /\ pc' = "done"
    /\ UNCHANGED <<service, pipeline, story_prompt_content, outline_data,
                   idx, affirmative_draft, negative_draft, final_section,
                   previous_sections, complete_story, debate_log,
                   token_usage, metered_calls, calls, report>>

(***************************************************************************)
(* The single-writer pipeline: generate_complete_outlined_story            *)
(***************************************************************************)
\* response.choices[0].message.content.strip(): anything but a message with
\* a text content raises, and the caller's handler returns None.
OutlinedContent(response) ==
    IF response.kind = "message" /\ response.content.t = "str"
        THEN [ok |-> TRUE, v |-> Str(Strip(response.content.s))]
        ELSE NotParsed

\* generate_story_outline (outlined): "Remove markdown code blocks if present"
OutlinedCleanFence(outline_text) ==
    LET a == IF StartsWith(outline_text, <<FENCE, JSONWORD>>)
                THEN SubSeq(outline_text, 3, Len(outline_text))
             ELSE IF StartsWith(outline_text, <<FENCE>>)
                THEN SubSeq(outline_text, 2, Len(outline_text))
             ELSE outline_text
        b == IF EndsWith(a, <<FENCE>>) THEN SubSeq(a, 1, Len(a) - 1) ELSE a
    IN  Strip(b)

SectionContents(pos) == {PyNone, Str(<<WS>>), Str(<<WS, Draft("writer", pos)>>)}

OutlinedReadPrompt ==
    /\ pipeline = "outlined"
    /\ pc = "start"
    /\ pc' = IF Truthy(story_prompt_content) THEN "outline" ELSE "done"
    /\ UNCHANGED <<service, pipeline, story_prompt_content, outline_data,
                   idx, affirmative_draft, negative_draft, final_section,
                   previous_sections, complete_story, debate_log,
                   token_usage, metered_calls, calls, files, report,
                   returned>>

\* generate_story_outline (outlined) and the driver's reading of the outline
OutlinedGenerateOutline ==
    /\ pipeline = "outlined"
    /\ pc = "outline"
    /\ \E response \in Responses(Offered(OutlineContents, OutlineBasic),
                                 UsageOffered) :
          LET c == OutlinedContent(response)
              parsed == IF c.ok THEN JsonLoads(OutlinedCleanFence(c.v.s))
                                ELSE NotParsed
              next == AfterOutline(parsed.v)
          IN  /\ calls' = Append(calls, Call("outline_generator", 0, <<>>, c.v))
              /\ outline_data' = parsed.v
              /\ files' = IF parsed.ok
                             THEN Append(files, File("story_outline.json", parsed.v))
                             ELSE files
              /\ pc' = IF next = "section" THEN "write_section" ELSE next
              /\ idx' = IF next = "section" THEN 1 ELSE idx
    /\ UNCHANGED <<service, pipeline, story_prompt_content,
                   affirmative_draft, negative_draft, final_section,
                   previous_sections, complete_story, debate_log,
                   token_usage, metered_calls, report, returned>>

\* One turn of the section loop: generate_story_section and the loop body.
OutlinedSection ==
    /\ pc = "write_section"
    /\ \E response \in Responses(SectionContents(idx), UsageOffered) :
          LET section_content == OutlinedContent(response).v
          IN  /\ calls' = Append(calls, Call("section_writer", idx,
                                             BuildContext(previous_sections),
                                             section_content))
              /\ final_section' = section_content
              /\ IF SectionSucceeded(section_content)
                    THEN /\ complete_story' =
                               Append(complete_story,
                                      RenderSection(SectionInfo, section_content))
                         /\ previous_sections' =
                               NextContext(previous_sections, section_content)
                         /\ report' = report
                         /\ idx' = IF idx < Len(Entries) THEN NextIndex(idx) ELSE idx
                         /\ pc' = IF idx < Len(Entries) THEN "write_section"
                                                        ELSE "assemble"
                    ELSE /\ report' = Append(report, SectionInfo.d.section)
                         /\ pc' = "assemble"
                         /\ UNCHANGED <<complete_story, previous_sections, idx>>
    /\ UNCHANGED <<service, pipeline, story_prompt_content, outline_data,
                   affirmative_draft, negative_draft, debate_log,
                   token_usage, metered_calls, files, returned>>

\* "Step 3: Save the complete story" (outlined)
OutlinedAssemble ==
    /\ pipeline = "outlined"
    /\ pc = "assemble"
    /\ IF HasSections(complete_story)
          THEN LET full_story ==
                       FullStory(Get(outline_data, "title",
                                     Str(<<Word("Generated Story")>>)),
                                 complete_story)
               IN  /\ files' = Append(files,
                                      File("generated_outlined_story.txt", full_story))
                   /\ returned' = Str(full_story)
          ELSE /\ files' = files
               /\ returned' = PyNone
    /\ pc' = "done"
    /\ UNCHANGED <<service, pipeline, story_prompt_content, outline_data,
                   idx, affirmative_draft, negative_draft, final_section,
                   previous_sections, complete_story, debate_log,
                   token_usage, metered_calls, calls, report>>

Next ==
    \/ ReadPrompt
    \/ GenerateOutline
    \/ Affirmative
    \/ Negative
    \/ Judge
    \/ LoopBody
    \/ Assemble
    \/ OutlinedReadPrompt
    \/ OutlinedGenerateOutline
    \/ OutlinedSection
    \/ OutlinedAssemble

Spec == Init /\ [][Next]_vars

(***************************************************************************)
(* Properties                                                              *)
(***************************************************************************)
Last(seq) == seq[Len(seq)]

RunOver == pc \in {"done", "crashed"}

\* The current section raised out of generate_section_with_debate.
SectionRaised == pc = "crashed" /\ idx >= 1

\* The driver took its failure branch at the current section.
LoopStopped == report # <<>>

\* The judge call c yielded no decision: nothing came back, or the text did
\* not parse as JSON.
JudgeUnparsed(c) ==
    /\ c.agent = "judge_editor"
    /\ (~Truthy(c.ret) \/ ~ParseJson(c.ret).ok)

\* The text of section p as it stands in the story: what follows the heading.
StoryText(p) ==
    SubSeq(complete_story[p], Len(Format(Entries[p].d.title)) + 3,
           Len(complete_story[p]))

\* C1: in the debate pipeline, once the affirmative call of a section has
\* returned a non-empty draft, the section completes with a non-empty final
\* text and the driver goes on, whatever the negative and judge calls return;
\* the loop stops early only at a section whose affirmative call failed.
C1_AffirmativeSuccessCompletesSection ==
    pipeline = "debate" =>
        /\ ~SectionRaised
        /\ (pc = "loop_body" /\ Truthy(affirmative_draft)
               => Truthy(final_section))
        /\ (LoopStopped => ~Truthy(affirmative_draft))

\* Number of outline entries processed before any stopping failure.
ProcessedEntries == IF LoopStopped THEN idx - 1 ELSE Len(Entries)

\* C2: at the end of every run that produces a story, the number of story
\* sections equals the number of debate records, and both equal the number of
\* outline entries processed before any stopping failure.
C2_StoryAndDebateLogSameLength ==
    (pipeline = "debate" /\ pc = "done" /\ Truthy(returned)) =>
        /\ Len(complete_story) = Len(debate_log)
        /\ Len(complete_story) = ProcessedEntries

\* The debate log ends with a record of the current section that has no
\* judge decision.
FallbackRecorded ==
    /\ debate_log # <<>>
    /\ Last(debate_log).section = SectionInfo.d.section
    /\ Last(debate_log).title = SectionInfo.d.title
    /\ Last(debate_log).affirmative_draft = affirmative_draft
    /\ Last(debate_log).judge_decision = PyNone

\* C3: when the negative call fails for a section whose affirmative draft
\* succeeded, the final text is the affirmative draft verbatim and a debate
\* record of the section, without judge decision and with an empty or absent
\* negative draft, is appended to the debate log.
C3_NegativeFailureFallsBackAndIsLogged ==
    (pc = "loop_body" /\ Truthy(affirmative_draft)
       /\ Last(calls).agent = "negative_critic" /\ ~Truthy(Last(calls).ret)) =>
        /\ final_section = affirmative_draft
        /\ FallbackRecorded
        /\ ~Truthy(Last(debate_log).negative_draft)

\* C4: when the judge call returns nothing or text that is not JSON, the
\* final text is the affirmative draft verbatim, a debate record without
\* judge decision is still appended, and the fallback text is the last
\* context entry supplied to the next section.
C4_JudgeFailureFallsBackAndIsLogged ==
    /\ (pc = "loop_body" /\ JudgeUnparsed(Last(calls))) =>
          /\ final_section = affirmative_draft
          /\ FallbackRecorded
    /\ \A j \in 1..Len(calls) - 1 :
          JudgeUnparsed(calls[j]) =>
             /\ calls[j + 1].context # <<>>
             /\ Last(calls[j + 1].context).text = calls[j - 2].ret

\* Judge calls among the first n calls that produced a debate record.
RecordedDebates(n) ==
    {j \in 1..n : calls[j].agent = "judge_editor" /\ ~JudgeUnparsed(calls[j])}

\* C5: when the affirmative call for section k returns nothing or fails, no
\* negative or judge call is made for k, no debate record is produced for k,
\* and no model call of any role is made for any later outline entry.
C5_AffirmativeFailureStopsAllCalls ==
    \A j \in 1..Len(calls) :
        (calls[j].agent = "affirmative_writer" /\ ~Truthy(calls[j].ret)) =>
            /\ j = Len(calls)
            /\ \A m \in 1..j - 1 : calls[m].pos < calls[j].pos
            /\ Len(debate_log) = Cardinality(RecordedDebates(j - 1))

C5_Witness ==
    /\ pc = "done"
    /\ idx = 2
    /\ Last(calls).agent = "affirmative_writer"
    /\ ~Truthy(Last(calls).ret)
    /\ Len(debate_log) = 1

C7_PartialStoryKeptAndStopReported ==
    (RunOver /\ idx > 1 /\ (LoopStopped \/ SectionRaised)) =>
        /\ Len(complete_story) = idx - 1
        /\ \A m \in 1..Len(complete_story) :
              StartsWith(complete_story[m], <<H2>> \o Format(Entries[m].d.title))
        /\ Truthy(returned)
        /\ returned.s = FullStory(Get(outline_data, "title", PyNone),
                                  complete_story)
        /\ report = <<PyInt(idx)>>

\* print_token_usage_summary: a role's total is its prompt plus its
\* completion tokens.
AgentTotal(stats) == stats.prompt_tokens + stats.completion_tokens

\* C8: the global total token count equals the sum over the four roles of
\* the role's total token count.
C8_TotalTokensAdditive ==
    token_usage.total_tokens =
        AgentTotal(token_usage.by_agent["outline_generator"])
        + AgentTotal(token_usage.by_agent["affirmative_writer"])
        + AgentTotal(token_usage.by_agent["negative_critic"])
        + AgentTotal(token_usage.by_agent["judge_editor"])

ByAgentSum(field) ==
    token_usage.by_agent["outline_generator"][field]
    + token_usage.by_agent["affirmative_writer"][field]
    + token_usage.by_agent["negative_critic"][field]
    + token_usage.by_agent["judge_editor"][field]

\* C9: in every reachable state the global call count, prompt total and
\* completion total equal the sums of the per-role call counts, prompt totals
\* and completion totals.
C9_GlobalEqualsSumOfRoles ==
    /\ token_usage.api_calls = ByAgentSum("calls")
    /\ token_usage.total_prompt_tokens = ByAgentSum("prompt_tokens")
    /\ token_usage.total_completion_tokens = ByAgentSum("completion_tokens")

C9_Witness ==
    /\ token_usage.api_calls >= 3
    /\ token_usage.by_agent["outline_generator"].calls = 1
    /\ token_usage.by_agent["affirmative_writer"].calls >= 1
    /\ token_usage.by_agent["judge_editor"].calls >= 1

\* Contents of a message: none, blank, a text, a text in whitespace.
SampleContents ==
    {PyNone, Str(<<WS>>), Str(<<Word("text")>>), Str(<<WS, Word("text"), WS>>)}

\* C10: a model call whose response carries no usage metadata leaves every
\* usage total and call count unchanged and still returns the response text.
C10_NoUsageMetadataLeavesTotals ==
    \A agent \in Agents, content \in SampleContents :
        LET r == CallModel(Message(content, NoUsage), agent, token_usage)
        IN  /\ r.tu = token_usage
            /\ (Truthy(content) /\ Strip(content.s) # <<>>) =>
                   r.ret = Str(Strip(content.s))

C10_Witness ==
    /\ Len(calls) >= 3
    /\ Truthy(negative_draft)
    /\ token_usage = InitTokenUsage

\* The outline call c gave nothing, or text that is not JSON.
OutlineCallFailed(c) ==
    \/ ~Truthy(c.ret)
    \/ ~JsonLoads(CleanJsonResponse(c.ret.s)).ok

\* C11: if the outline call returns nothing or text that does not parse as
\* JSON, outline generation fails without raising and the run ends with no
\* section call made and no outline, story, debate-log or usage-log written.
C11_OutlineFailureEndsRunWithoutOutput ==
    (calls # <<>> /\ OutlineCallFailed(calls[1])) =>
        /\ pc = "done"
        /\ Len(calls) = 1
        /\ outline_data = PyNone
        /\ files = <<>>
        /\ complete_story = <<>>
        /\ debate_log = <<>>
        /\ returned = PyNone

C11_Witness ==
    /\ pipeline = "debate"
    /\ pc = "done"
    /\ Len(calls) = 1
    /\ calls[1].ret = Str(<<Word("sorry")>>)

\* The section loop was entered and has ended.
LoopEnded == pc = "done" /\ Truthy(outline_data)

StoryFiles == {"generated_debate_story.txt", "generated_outlined_story.txt"}
StoryWritten == \E j \in 1..Len(files) : files[j].name \in StoryFiles

\* C12: after the section loop a story is assembled and returned if and only
\* if at least one section completed; with an outline but zero completed
\* sections the run returns a failure and no story is produced.
C12_StoryIffSomeSectionCompleted ==
    LoopEnded =>
        /\ Truthy(returned) <=> complete_story # <<>>
        /\ StoryWritten <=> complete_story # <<>>

C12_Witness ==
    /\ LoopEnded
    /\ Len(Entries) = MaxSections
    /\ complete_story = <<>>
    /\ returned = PyNone
    /\ ~StoryWritten

\* C13: every outline that outline generation returns as a success and that
\* the section loop iterates over has exactly the configured number of
\* sections, and each entry's section number is unique and equals its
\* 1-based position.
C13_OutlineHasConfiguredShape ==
    (Truthy(outline_data) /\ pc # "crashed") =>
        /\ Len(Entries) = SectionCount
        /\ \A j \in 1..Len(Entries) : Entries[j].d.section = PyInt(j)

\* What the text returned by call c decodes to.
DecodedFrom(c) == JsonLoads(CleanJsonResponse(c.ret.s))

\* The judge call c yielded a decision with its three fields.
JudgeDecided(c) ==
    /\ c.agent = "judge_editor"
    /\ Truthy(c.ret)
    /\ DecodedFrom(c).ok
    /\ DecisionReadable(DecodedFrom(c).v)

\* The driver has dealt with the section that call number j belongs to.
SectionHandled(j) == j < Len(calls) \/ pc \in {"affirmative", "assemble", "done"}

\* C14: when the judge call yields a parsed decision, the text that enters
\* the story and the context for that section is the decision's
\* final_section, whichever version is named as preferred.
C14_FinalSectionIsAuthoritative ==
    \A j \in 1..Len(calls) :
        JudgeDecided(calls[j]) =>
            LET final == DecodedFrom(calls[j]).v.d.final_section
                pos == calls[j].pos
            IN  /\ (j = Len(calls) /\ pc = "loop_body") => final_section = final
                /\ (SectionHandled(j) /\ Truthy(final)) =>
                      /\ Len(complete_story) >= pos
                      /\ StoryText(pos) = Format(final)
                      /\ previous_sections[pos] = final
                /\ (SectionHandled(j) /\ ~Truthy(final)) =>
                      Len(complete_story) = pos - 1

C14_Witness ==
    \E j \in 1..Len(calls) :
        /\ JudgeDecided(calls[j])
        /\ DecodedFrom(calls[j]).v.d.preferred_version = Str(<<Word("affirmative")>>)
        /\ Len(previous_sections) >= calls[j].pos
        /\ previous_sections[calls[j].pos] = Str(<<Draft("judge", calls[j].pos)>>)
        /\ previous_sections[calls[j].pos] # calls[j - 2].ret

\* b is a with zero or more entries appended.
Extends(a, b) == Len(a) <= Len(b) /\ SubSeq(b, 1, Len(a)) = a

\* No counter of usage b is below its value in usage a.
NotBelow(a, b) ==
    /\ a.total_prompt_tokens <= b.total_prompt_tokens
    /\ a.total_completion_tokens <= b.total_completion_tokens
    /\ a.total_tokens <= b.total_tokens
    /\ a.api_calls <= b.api_calls
    /\ \A agent \in Agents :
          /\ a.by_agent[agent].prompt_tokens <= b.by_agent[agent].prompt_tokens
          /\ a.by_agent[agent].completion_tokens
                <= b.by_agent[agent].completion_tokens
          /\ a.by_agent[agent].calls <= b.by_agent[agent].calls

\* C15: across every step of a run the debate log, the context list and the
\* story section list only grow by appending at the end, and no usage counter
\* or call count ever decreases.
C15_AppendOnlyAndIncrementOnly ==
    [][/\ Extends(debate_log, debate_log')
       /\ Extends(previous_sections, previous_sections')
       /\ Extends(complete_story, complete_story')
       /\ NotBelow(token_usage, token_usage')]_vars

C15_Witness ==
    /\ Len(debate_log) = 2
    /\ Len(previous_sections) = 2
    /\ Len(complete_story) = 2
    /\ token_usage.api_calls >= 2

SectionAgents == {"affirmative_writer", "negative_critic", "section_writer"}

\* The order of the calls made so far.
CallOrder ==
    \A j \in 1..Len(calls) :
        /\ calls[j].agent = "outline_generator" <=> j = 1
        /\ calls[j].agent \in {"affirmative_writer", "section_writer"} =>
              /\ calls[j].pos = 1 <=> j = 2
              /\ calls[j].pos > 1 => calls[j - 1].pos = calls[j].pos - 1
        /\ calls[j].agent = "negative_critic" =>
              /\ calls[j - 1].agent = "affirmative_writer"
              /\ calls[j - 1].pos = calls[j].pos
              /\ Truthy(calls[j - 1].ret)
        /\ calls[j].agent = "judge_editor" =>
              /\ calls[j - 1].agent = "negative_critic"
              /\ calls[j - 1].pos = calls[j].pos
              /\ Truthy(calls[j - 1].ret)
              /\ calls[j - 2].agent = "affirmative_writer"
              /\ calls[j - 2].pos = calls[j].pos
              /\ Truthy(calls[j - 2].ret)
        /\ calls[j].agent \in SectionAgents =>
              /\ Len(calls[j].context) = calls[j].pos - 1
              /\ Len(complete_story) >= calls[j].pos - 1
              /\ calls[j].pos > 1 =>
                    Format(Last(calls[j].context).text) = StoryText(calls[j].pos - 1)

\* C16: the model calls occur in a fixed order: the outline call first; for
\* each section the negative call only after a non-empty affirmative draft,
\* the judge call only after both non-empty drafts; no call for section k+1
\* before section k's final text is in the context; one call at a time.
C16_CallsInFixedOrder ==
    /\ []CallOrder
    /\ [][\/ calls' = calls
          \/ /\ Len(calls') = Len(calls) + 1
             /\ Extends(calls, calls')]_vars

C16_Witness ==
    /\ Len(calls) = 7
    /\ calls[7].agent = "judge_editor"
    /\ calls[7].pos = 2

\* The number of outline entries the section loop runs over.
LoopLength ==
    IF Truthy(outline_data) /\ OutlineReadable(outline_data) THEN Len(Entries) ELSE 0

\* No agent is called twice for the same section.
NoRetry ==
    \A i, j \in 1..Len(calls) :
        (calls[i].agent = calls[j].agent /\ calls[i].pos = calls[j].pos) => i = j

Rank ==
    CASE pc = "start" -> 0
      [] pc = "outline" -> 1
      [] pc \in {"affirmative", "write_section"} -> 2
      [] pc = "negative" -> 3
      [] pc = "judge" -> 4
      [] pc = "loop_body" -> 5
      [] pc = "assemble" -> 6
      [] pc \in {"done", "crashed"} -> 7

\* The position of the run: the loop index, then the step within the section.
Progress == 10 * idx + Rank

\* C17: no failed call is retried and nothing loops back: each agent is
\* called at most once per section, a run over N outline entries makes at
\* most 1 + 3N calls, and every step moves the run strictly forward through
\* a bounded sequence of positions, so it terminates.
C17_NoRetryAndBoundedCalls ==
    /\ [](/\ NoRetry
          /\ Len(calls) <= 1 + 3 * LoopLength
          /\ Progress <= 10 * (IF LoopLength = 0 THEN 1 ELSE LoopLength) + 7)
    /\ [][Progress' > Progress]_vars

C17_Witness ==
    /\ pc = "done"
    /\ pipeline = "debate"
    /\ LoopLength = MaxSections
    /\ Len(calls) = 1 + 3 * LoopLength

\* Message contents that carry no text.
EmptyContents == {PyNone, Str(<<>>), Str(<<WS>>)}

\* Responses of the service without text, reporting one of the given usages.
EmptyResponses(usages) ==
    {NoChoices, NoMessage} \cup {Message(c, u) : c \in EmptyContents, u \in usages}

\* At the present totals, a call that raises and a call answered by any of
\* the given responses both return no text and leave the same totals.
FailedSameAs(responses) ==
    \A a \in Agents, e \in responses :
        LET f == CallModel(Raised, a, token_usage)
            g == CallModel(e, a, token_usage)
        IN  /\ ~Truthy(f.ret)
            /\ ~Truthy(g.ret)
            /\ f.tu = g.tu

\* At the present totals, an empty message that reports usage is counted.
EmptyWithUsageCounted ==
    \A a \in Agents, c \in EmptyContents, u \in UsageReports :
        LET g == CallModel(Message(c, u), a, token_usage)
        IN  /\ ~Truthy(g.ret)
            /\ g.tu.api_calls = token_usage.api_calls + 1
            /\ g.tu.total_tokens = token_usage.total_tokens + u.total_tokens

\* A step of the debate pipeline whose model call returned no text.
CallWithoutText ==
    /\ pipeline = "debate"
    /\ Len(calls') = Len(calls) + 1
    /\ ~Truthy(Last(calls').ret)

\* What the pipeline does after a call without text, whatever the reason.
OutcomeWithoutText ==
    /\ UNCHANGED <<complete_story, previous_sections, debate_log, files,
                   report, returned, idx>>
    /\ Last(calls').agent = "outline_generator" =>
          /\ pc' = "done"
          /\ outline_data' = PyNone
    /\ Last(calls').agent = "affirmative_writer" =>
          /\ pc' = "loop_body"
          /\ final_section' = PyNone
    /\ Last(calls').agent \in {"negative_critic", "judge_editor"} =>
          /\ pc' = "loop_body"
          /\ final_section' = affirmative_draft

\* C18: a model call that fails is treated identically to a call that
\* returns an empty response: no exception, no text, and the same
\* transitions, outputs and usage totals.
C18_FailedCallSameAsEmptyResponse ==
    /\ []FailedSameAs(EmptyResponses(UsageReports \cup {NoUsage}))
    /\ [][CallWithoutText =>
             /\ OutcomeWithoutText
             /\ token_usage' = token_usage]_vars

\* C18 (amended): a model call that fails is treated identically to a
\* response without choices or message and to an empty message that reports
\* no usage: no exception, no text, the same transitions and outputs, and
\* unchanged usage totals. An empty message that reports usage leads to the
\* same transitions and outputs but is counted in the usage totals.
C18_FailedCallSameAsUncountedEmptyResponse ==
    /\ [](/\ FailedSameAs(EmptyResponses({NoUsage}))
          /\ EmptyWithUsageCounted)
    /\ [][CallWithoutText => OutcomeWithoutText]_vars

C18_Witness ==
    /\ pipeline = "debate"
    /\ pc = "done"
    /\ Len(calls) = 5
    /\ ~Truthy(calls[5].ret)
    /\ token_usage.api_calls = 5
    /\ token_usage.by_agent["affirmative_writer"].calls = 2

\* Some call of the agent for the section at pos returned a text.
Drafted(agent, pos) ==
    \E i \in 1..Len(calls) :
        /\ calls[i].agent = agent
        /\ calls[i].pos = pos
        /\ Truthy(calls[i].ret)

\* The judge call for the section at pos yielded a decision with its three
\* fields and a final text.
Judged(pos) ==
    \E i \in 1..Len(calls) :
        /\ calls[i].pos = pos
        /\ JudgeDecided(calls[i])
        /\ Truthy(DecodedFrom(calls[i]).v.d.final_section)

\* The run is over and every call of every section succeeded.
AllCallsSucceeded ==
    /\ pipeline = "debate"
    /\ pc = "done"
    /\ LoopLength >= 1
    /\ \A p \in 1..LoopLength :
          /\ Drafted("affirmative_writer", p)
          /\ Drafted("negative_critic", p)
          /\ Judged(p)

\* C19: when the outline has N sections and the affirmative, negative and
\* judge calls all succeed for every section (each writer returns a draft,
\* the judge a decision with a final text), the story has exactly N sections
\* in outline order and the debate log has exactly N records, one per
\* section, each containing a judge decision.
C19_AllSucceedGivesNSectionsAndRecords ==
    AllCallsSucceeded =>
        /\ Len(complete_story) = LoopLength
        /\ Len(debate_log) = LoopLength
        /\ Truthy(returned)
        /\ \A p \in 1..LoopLength :
              /\ StartsWith(complete_story[p],
                            <<H2>> \o Format(Entries[p].d.title) \o <<BLANK>>)
              /\ debate_log[p].section = Entries[p].d.section
              /\ debate_log[p].title = Entries[p].d.title
              /\ Truthy(debate_log[p].judge_decision)
              /\ StoryText(p) = Format(debate_log[p].judge_decision.d.final_section)

C19_Witness ==
    /\ AllCallsSucceeded
    /\ LoopLength = MaxSections
    /\ Len(debate_log) = MaxSections
    /\ debate_log[MaxSections].section = PyInt(MaxSections)

\* The heading and text of the first n completed sections, one after the
\* other, a blank line between two of them.
SectionsText[n \in 0..MaxSections] ==
    IF n = 0 THEN <<>>
    ELSE SectionsText[n - 1]
            \o (IF n > 1 THEN <<BLANK>> ELSE <<>>)
            \o <<H2>> \o Format(Entries[n].d.title) \o <<BLANK>>
            \o Format(previous_sections[n])

DefaultTitle ==
    IF pipeline = "debate" THEN Str(<<Word("Generated Debate Story")>>)
                           ELSE Str(<<Word("Generated Story")>>)

\* "# " + title, a blank line, then the completed sections.
ExpectedStory ==
    <<H1>> \o Format(Get(outline_data, "title", DefaultTitle)) \o <<BLANK>>
        \o SectionsText[Len(previous_sections)]

\* C20: the final story text is the heading "# " + outline title followed by
\* a blank line, then each completed section rendered as "## " + its outline
\* title, a blank line and its final text, consecutive sections separated by
\* exactly one blank line, in outline order and with no trailing separator.
C20_StoryTextFormat ==
    (pc = "done" /\ Truthy(returned)) =>
        /\ returned = Str(ExpectedStory)
        /\ Last(returned.s) # BLANK
        /\ \E j \in 1..Len(files) :
              /\ files[j].name \in StoryFiles
              /\ files[j].content = ExpectedStory

C20_Witness ==
    /\ pc = "done"
    /\ Truthy(returned)
    /\ Len(previous_sections) = 2
    /\ Len(returned.s) = 12
    /\ SubSeq(returned.s, 1, 6) = <<H1, Word("story"), BLANK, H2, Title(1), BLANK>>
    /\ SubSeq(returned.s, 8, 11) = <<BLANK, H2, Title(2), BLANK>>

\* The negative call number j returned no draft.
NegativeCallFailed(j) ==
    /\ calls[j].agent = "negative_critic"
    /\ ~Truthy(calls[j].ret)

JudgeBucket(tu) == tu.by_agent["judge_editor"]

\* After a failed negative call the section is over: the judge is not called
\* for it, and what follows is the driver's loop body and then the next
\* section's affirmative call.
NegativeFailureEndsDebate ==
    \A j \in 1..Len(calls) :
        NegativeCallFailed(j) =>
            /\ \A i \in 1..Len(calls) :
                  calls[i].agent = "judge_editor" => calls[i].pos # calls[j].pos
            /\ j < Len(calls) =>
                  /\ calls[j + 1].agent = "affirmative_writer"
                  /\ calls[j + 1].pos = calls[j].pos + 1
            /\ j = Len(calls) => pc \in {"loop_body", "affirmative", "assemble", "done"}
            /\ (j = Len(calls) /\ pc = "loop_body") =>
                  final_section = affirmative_draft

\* C21: when the negative call fails for a section, the debate goes directly
\* to done: the judge is never called for that section, and the judge_editor
\* usage bucket is left unchanged by that section (the bucket changes only in
\* a judge step, and the section has none).
C21_NegativeFailureSkipsJudge ==
    /\ []NegativeFailureEndsDebate
    /\ [][/\ pc # "judge" => JudgeBucket(token_usage') = JudgeBucket(token_usage)
          /\ (pc = "negative" /\ ~Truthy(Last(calls').ret)) =>
                /\ pc' = "loop_body"
                /\ final_section' = affirmative_draft
                /\ debate_log' = debate_log]_vars

C21_Witness ==
    /\ pipeline = "debate"
    /\ service = "usage_always"
    /\ pc = "done"
    /\ Len(calls) = 6
    /\ NegativeCallFailed(6)
    /\ JudgeBucket(token_usage).calls = 1
    /\ token_usage.api_calls = 6

MaxBodyLen == 3

\* Texts a response can hold between its fence markers.
BodyTokens == {WS, FENCE, JSONWORD, Doc(Dict(<<>>))}
Bodies == UNION {[1..k -> BodyTokens] : k \in 0..MaxBodyLen}

LeadingMarkers == {<<FENCE, JSONWORD>>, <<FENCE>>}
TrailingMarkers == {<<FENCE>>}
Margins == {<<>>, <<WS>>}

\* The text handed to the JSON parser for a response content, in the debate
\* pipeline (_call_model strips, then _clean_json_response) and in the
\* single-writer pipeline (strip, then the inline cleaning).
CleanedDebate(content) == CleanJsonResponse(Strip(content))
CleanedOutlined(content) == OutlinedCleanFence(Strip(content))

HasFence(text) == \E i \in 1..Len(text) : text[i] = FENCE

\* The text is not itself wrapped in a marker at either end.
Unfenced(text) ==
    /\ ~StartsWith(Strip(text), <<FENCE>>)
    /\ ~EndsWith(Strip(text), <<FENCE>>)

\* lead is the leading marker of lead \o body: "```" followed by "json" is
\* the marker "```json".
IsLeadOf(lead, body) == lead = <<FENCE>> => ~StartsWith(body, <<JSONWORD>>)

\* Cleaning takes one leading and one trailing marker off a response, and
\* cleaning the response without those markers gives the same text.
CleaningRemovesFence ==
    \A body \in Bodies, pre \in Margins, post \in Margins :
        /\ \A lead \in LeadingMarkers, trail \in TrailingMarkers :
              IsLeadOf(lead, body) =>
                 LET fenced == pre \o lead \o body \o trail \o post
                 IN  /\ CleanedDebate(fenced) = Strip(body)
                     /\ CleanedOutlined(fenced) = Strip(body)
                     /\ Unfenced(body) =>
                           /\ CleanedDebate(fenced) = CleanedDebate(pre \o body \o post)
                           /\ CleanedOutlined(fenced) = CleanedOutlined(pre \o body \o post)
        /\ Unfenced(body) =>
              /\ \A lead \in LeadingMarkers :
                    IsLeadOf(lead, body) =>
                       /\ CleanedDebate(pre \o lead \o body \o post) = CleanedDebate(body)
                       /\ CleanedOutlined(pre \o lead \o body \o post) = CleanedOutlined(body)
              /\ \A trail \in TrailingMarkers :
                    /\ CleanedDebate(pre \o body \o trail \o post) = CleanedDebate(body)
                    /\ CleanedOutlined(pre \o body \o trail \o post) = CleanedOutlined(body)
        /\ ~HasFence(body) =>
              /\ CleanedDebate(pre \o body \o post) = Strip(body)
              /\ CleanedOutlined(pre \o body \o post) = Strip(body)

\* The outline response of this run, when it came in a fence, was parsed as
\* the document inside the fence.
FencedOutlineParsed ==
    (/\ calls # <<>>
     /\ Truthy(calls[1].ret)
     /\ \E d \in OutlineDocs :
           calls[1].ret.s = <<FENCE, JSONWORD, WS, Doc(d), WS, FENCE>>)
        => /\ Truthy(outline_data)
           /\ calls[1].ret.s[4] = Doc(outline_data)

\* C22: before parsing an outline or judge response, the cleaning step
\* removes one leading "```json" or "```" marker if present and one trailing
\* "```" marker if present and trims surrounding whitespace; a response with
\* no fence markers reaches the parser unchanged apart from the trimming,
\* and cleaning a fenced response gives what cleaning the same response
\* without its fence gives.
C22_CleaningStripsOneFence ==
    /\ FencedOutlineParsed
    /\ pc = "outline" => CleaningRemovesFence

C22_Witness ==
    /\ pc = "done"
    /\ Truthy(returned)
    /\ calls[1].ret.s =
          <<FENCE, JSONWORD, WS, Doc(ProperOutline(MaxSections)), WS, FENCE>>
    /\ \E j \in 1..Len(calls) :
          /\ calls[j].agent = "judge_editor"
          /\ Truthy(calls[j].ret)
          /\ StartsWith(calls[j].ret.s, <<FENCE>>)
          /\ debate_log # <<>>

\* The judge call c put a record into the debate log.
Logged(c) ==
    /\ c.agent = "judge_editor"
    /\ Truthy(c.ret)
    /\ ParseJson(c.ret).ok

\* The position in the outline of the section that record number r is about.
RecordPos(r) == SelectSeq(calls, Logged)[r].pos

\* The loop step of the section at position p has finished.
StepFinished(p) == p < idx \/ pc \in {"affirmative", "assemble", "done"}

\* C23: in every reachable state of the debate pipeline, each record in the
\* debate log belongs to a section that is (or, once the current loop step
\* finishes, will be) in the story, there is at most one record per section,
\* records appear in outline order, and the story text of that section
\* equals the record's judge_decision final_section.
C23_DebateRecordsMatchStory ==
    pipeline = "debate" =>
        /\ Len(debate_log) = Len(SelectSeq(calls, Logged))
        /\ \A r \in 1..Len(debate_log) :
              /\ debate_log[r].title = Entries[RecordPos(r)].d.title
              /\ debate_log[r].section = Entries[RecordPos(r)].d.section
              /\ \A q \in 1..Len(debate_log) : r < q => RecordPos(r) < RecordPos(q)
              /\ StepFinished(RecordPos(r)) =>
                    /\ Len(complete_story) >= RecordPos(r)
                    /\ HasKey(debate_log[r].judge_decision, "final_section")
                    /\ StoryText(RecordPos(r)) =
                          Format(debate_log[r].judge_decision.d.final_section)

\* The number of calls so far whose response carried a message and usage
\* metadata.
MeteredTotal ==
    metered_calls["outline_generator"] + metered_calls["affirmative_writer"]
        + metered_calls["negative_critic"] + metered_calls["judge_editor"]

\* C24: usage is counted per model call, not per completed section: the
\* global call count equals the number of calls whose response carried a
\* message and usage metadata (and each role's count the number of such
\* calls of the role), including calls whose text was empty, calls of a
\* section that then fell back or failed, and the outline call of a run
\* that produced no story.
C24_UsageCountedPerCall ==
    pipeline = "debate" =>
        /\ token_usage.api_calls = MeteredTotal
        /\ \A a \in Agents : token_usage.by_agent[a].calls = metered_calls[a]

\* A finished run without a story: the outline call was counted, and so
\* were the affirmative call that returned an empty text and the calls of
\* the section before it, which fell back to its affirmative draft.
C24_Witness ==
    /\ pipeline = "debate"
    /\ pc = "done"
    /\ Len(calls) = 4
    /\ Len(complete_story) = 1
    /\ debate_log = <<>>
    /\ calls[3].agent = "negative_critic"
    /\ ~Truthy(calls[3].ret)
    /\ ~Truthy(calls[4].ret)
    /\ token_usage.api_calls = 4

FileNames == [j \in 1..Len(files) |-> files[j].name]
Written(name) == \E j \in 1..Len(files) : files[j].name = name

\* The files written at the end of a debate run, in the order of writing.
FinalFiles ==
    <<"generated_debate_story.txt", "debate_log.json", "token_usage_log.json">>

\* The outline response was received and parsed as JSON.
OutlineParsed ==
    /\ calls # <<>>
    /\ Truthy(calls[1].ret)
    /\ ParseJson(calls[1].ret).ok

\* C25: outputs are produced in a fixed order and all-or-nothing at the end:
\* the outline artifact is written exactly when the outline response parsed,
\* before any section call; the story, the debate log and the usage log are
\* written only after the section loop has ended, and either all three are
\* written (at least one section completed) or none of them is (zero
\* sections completed), never a strict subset.
C25_OutputsInOrderAllOrNothing ==
    pipeline = "debate" =>
        /\ FileNames \in {<<>>, <<"story_outline.json">>,
                          <<"story_outline.json">> \o FinalFiles}
        /\ calls = <<>> => files = <<>>
        /\ calls # <<>> => (Written("story_outline.json") <=> OutlineParsed)
        /\ Len(files) > 1 => pc = "done"
        /\ LoopEnded => (Len(files) > 1 <=> complete_story # <<>>)
        /\ Len(files) > 1 =>
              /\ files[2].content = returned.s
              /\ files[3].content = debate_log
              /\ files[4].content = token_usage

C25_Witness ==
    /\ pipeline = "debate"
    /\ pc = "done"
    /\ FileNames = <<"story_outline.json">> \o FinalFiles
    /\ Len(complete_story) = 1
    /\ report # <<>>

====
